---- MODULE Spec2Model ----
(***************************************************************************)
(* ATCC traffic counting pipeline (atcc_pipeline.py).                      *)
(*                                                                         *)
(* The model follows process_full_day: the input video is split into clip  *)
(* files, the clip files are visited in sorted order, each clip's          *)
(* detection stream is consumed one detection at a time by the loop body   *)
(* of count_vehicles_in_video, each clip yields one interval row, and the  *)
(* Daily Total row is appended and the table exported after the last clip. *)
(* process_full_day may be invoked again (the desktop UI's Run button)     *)
(* after it returned or raised.                                            *)
(*                                                                         *)
(* The multi-day analysis (atcc_analysis.py) follows main: the daily       *)
(* tables are loaded, compute_adt and compute_pcu build the average        *)
(* tables, compute_peak_hour_and_phf builds the peak table of every day    *)
(* and the summary workbook is written.                                    *)
(***************************************************************************)
EXTENDS Integers, Sequences, FiniteSets, TLC

\* ------------------------------ bounds ---------------------------------
MaxClips == 2   \* segments of an input video
MaxObs == 3     \* detections in one clip's stream
MaxIds == 2     \* object identifiers the tracker hands out
MaxRuns == 2    \* invocations of process_full_day
LongVideo == 1001  \* segments of the long input video of SpecOrder
MaxHourTotal == 2  \* Hourly Total of a bin handed to peak_in_range alone
MaxDays == 2    \* daily tables handed to the multi-day analysis
MaxRows == 2    \* interval rows of a daily table handed to the analysis
MaxCount == 2   \* count of one category in a counts mapping handed to the row builder
MultiDayVideo == 202  \* segments of the input video of SpecHours (over 100 hours at 30 minutes)

VARIABLES
    pc,             \* position in process_full_day: "idle", "loop", "clip";
                    \* in atcc_analysis.main: "adt", "pcu", "peak", "save", "end";
                    \* in a call of peak_in_range alone: "peaks";
                    \* in the building of one interval row alone: "row"
    run,            \* number of invocations of process_full_day so far
    status,         \* outcome of the last invocation: "none", "running", "done", "failed"
    video,          \* the input video, identified by its number of segments
    interval_minutes, \* the --interval-mins setting
    line_norm,      \* the --line setting
    class_map_json, \* contents of the --class-map file (<<>> if none)
    base_start_hhmm, \* the --base-start setting
    cfg,            \* CountingConfig built by process_full_day
    clip_files,     \* clip_NNN.mp4 files present in <outdir>/clips (segment indices)
    clips,          \* list returned by split_video_ffmpeg (file indices)
    i,              \* loop index of enumerate(sorted(clips))
    records,        \* local list of interval rows
    counts,         \* count_vehicles_in_video: counters of the current clip
    last_side,      \* count_vehicles_in_video: obj_id -> side at its last observation
    counted_ids,    \* count_vehicles_in_video: identifiers already counted
    names_lookup,   \* count_vehicles_in_video: lower-cased model name -> category
    pos,            \* detections of the current clip consumed so far
    df,             \* table returned by the last completed invocation
    exported,       \* interval tables this invocation wrote to the output directory
    morning_range,  \* process_full_day: the --morning hour window
    evening_range,  \* process_full_day: the --evening hour window
    hourly,         \* process_full_day: hour -> Hourly Total of the finished table
    peaks,          \* peak hours returned (and written to the summary) by the last
                    \* completed invocation (<<>> if none)
    error,          \* exception that ended the last invocation ("none" if none)
    daily,          \* atcc_analysis.main: the loaded daily tables
    pcu_map,        \* atcc_analysis.main: the --pcu factors, category -> <<num, den>>
    adt_counts,     \* atcc_analysis.main: result of compute_adt (<<>> before)
    pcu_adt,        \* atcc_analysis.main: result of compute_pcu (<<>> before)
    peak_tables,    \* atcc_analysis.main: peak tables, one per day handled so far
    saved,          \* atcc_analysis.main: sheets of the written workbook (<<>> before)
    seen,           \* history: identifiers observed so far in the current clip
    hits,           \* history: counter increments caused by each identifier in the current clip
    later,          \* history: observations, in the current clip, of identifiers counted earlier in it
    countedBefore,  \* history: identifiers counted in earlier clips of this invocation
    visited,        \* history: clip files whose counting completed, in order, this invocation
    processed,      \* history: per clip index, completed countings over an interrupted
                    \* invocation and the invocations that resume it on the same video
    failedAt        \* history: loop index at which the last invocation raised (-1 if none)

\* the state of atcc_analysis.main
analysisVars == <<daily, pcu_map, adt_counts, pcu_adt, peak_tables, saved>>

vars == <<pc, run, status, video, interval_minutes, line_norm, class_map_json, cfg, clip_files, clips, i,
          records, counts, last_side, counted_ids, names_lookup, pos, df,
          exported, seen, hits, later, countedBefore, visited, processed,
          failedAt, base_start_hhmm, morning_range, evening_range, hourly,
          peaks, error, analysisVars>>

\* --------------------------- small helpers -----------------------------
ObjIds == 1..MaxIds

\* dict.get(key): a sequence of length 0 (None) or 1 (the value)
Get(d, k) == IF k \in DOMAIN d THEN <<d[k]>> ELSE <<>>

\* d[k] = v on a dict
Put(d, k, v) == [x \in (DOMAIN d) \cup {k} |-> IF x = k THEN v ELSE d[x]]

EmptyDict == [x \in {} |-> 0]

RECURSIVE SumRange(_, _, _)
\* s[lo] + ... + s[hi], by halves to keep the recursion shallow
SumRange(s, lo, hi) ==
    IF lo > hi THEN 0
    ELSE IF lo = hi THEN s[lo]
    ELSE LET mid == (lo + hi) \div 2
         IN  SumRange(s, lo, mid) + SumRange(s, mid + 1, hi)

\* sum() of a sequence of integers
SumSeq(s) == SumRange(s, 1, Len(s))

\* --------------------- time helpers and formatting ---------------------
RECURSIVE Digits(_)
\* decimal digits of a natural number, most significant first
Digits(n) == IF n < 10 THEN <<n>> ELSE Digits(n \div 10) \o <<n % 10>>

RECURSIVE ZeroPad(_, _)
ZeroPad(ds, width) == IF Len(ds) >= width THEN ds ELSE ZeroPad(<<0>> \o ds, width)

\* the format specs {n:02d} and %03d: at least `width` digits, more if needed
FormatD(n, width) == ZeroPad(Digits(n), width)

DigitChar == <<"0", "1", "2", "3", "4", "5", "6", "7", "8", "9">>

Chars(ds) == [k \in 1..Len(ds) |-> DigitChar[ds[k] + 1]]

\* hhmm(minutes_from_midnight) as a sequence of characters
hhmm(minutes_from_midnight) ==
    LET hours == minutes_from_midnight \div 60
        minutes == minutes_from_midnight % 60
    IN  Chars(FormatD(hours, 2)) \o <<":">> \o Chars(FormatD(minutes, 2))

DailyTotalLabel == <<"D", "a", "i", "l", "y", " ", "T", "o", "t", "a", "l">>

\* str[a:b] on a sequence of characters
StrSlice(s, a, b) == SubSeq(s, a + 1, IF b < Len(s) THEN b ELSE Len(s))

RECURSIVE SplitFrom(_, _, _, _)
SplitFrom(s, sep, k, cur) ==
    IF k > Len(s) THEN <<cur>>
    ELSE IF s[k] = sep THEN <<cur>> \o SplitFrom(s, sep, k + 1, <<>>)
    ELSE SplitFrom(s, sep, k + 1, Append(cur, s[k]))

\* str.split(sep)
Split(s, sep) == SplitFrom(s, sep, 1, <<>>)

IsDigits(s) == s # <<>> /\ \A k \in 1..Len(s) : \E d \in 1..10 : DigitChar[d] = s[k]

RECURSIVE ParseInt(_)
\* int(s) on a string of decimal digits
ParseInt(s) ==
    IF s = <<>> THEN 0
    ELSE 10 * ParseInt(SubSeq(s, 1, Len(s) - 1))
            + (CHOOSE d \in 0..9 : DigitChar[d + 1] = s[Len(s)])

\* the start_min column: minutes parsed from the first five characters of
\* an interval label
StartMin(label) ==
    LET x == Split(StrSlice(label, 0, 5), ":")
    IN  ParseInt(x[1]) * 60 + ParseInt(x[2])

\* f"{hour:02d}:00-{(hour+1)%24:02d}:00"
HourLabel(hour) ==
    Chars(FormatD(hour, 2)) \o <<":", "0", "0", "-">>
        \o Chars(FormatD((hour + 1) % 24, 2)) \o <<":", "0", "0">>

NotAvailable == <<"N", "/", "A">>

\* ------------------------- clip file names ------------------------------
\* code points of the characters in "clip_%03d.mp4"
ClipPrefix == <<99, 108, 105, 112, 95>>
ClipSuffix == <<46, 109, 112, 52>>

\* output_pattern "clip_%03d.mp4" applied to a segment number
ClipName(n) ==
    LET ds == FormatD(n, 3)
    IN  ClipPrefix \o [k \in 1..Len(ds) |-> 48 + ds[k]] \o ClipSuffix

RECURSIVE StrLessFrom(_, _, _)
StrLessFrom(a, b, k) ==
    IF k > Len(b) THEN FALSE
    ELSE IF k > Len(a) THEN TRUE
    ELSE IF a[k] = b[k] THEN StrLessFrom(a, b, k + 1)
    ELSE a[k] < b[k]

\* Python's ordering of two path strings: by code point, a prefix sorts first
StrLess(a, b) == StrLessFrom(a, b, 1)

\* sorted(output_dir.glob("clip_*.mp4")): the files ordered by name
SortedClips(files) ==
    LET named == {<<c, ClipName(c)>> : c \in files}
        ranked == {<<Cardinality({q \in named : StrLess(q[2], p[2])}), p[1]>> : p \in named}
    IN  [k \in 1..Cardinality(files) |-> (CHOOSE r \in ranked : r[1] = k - 1)[2]]

\* ffmpeg's segment muxer writes segments 0..n-1 over whatever the directory
\* already holds; the glob then returns every clip file in the directory
split_video_ffmpeg(files, nseg) == SortedClips(files \cup (0..(nseg - 1)))

\* ------------------------------ geometry -------------------------------
\* frame width and height reported by the capture of a clip
Frame == [w |-> 4, h |-> 4]

\* Line.side: cross product of (p2 - p1) and (point - p1)
Side(line, point) ==
    (line.p2[1] - line.p1[1]) * (point[2] - line.p1[2])
        - (line.p2[2] - line.p1[2]) * (point[1] - line.p1[1])

\* A token of the --line string: ok says whether float() accepts it, and
\* then its value is n/d.
Tok(n, d) == [ok |-> TRUE, n |-> n, d |-> d]

\* "0,0.5;1,0.5" split at ';' and ','
DefaultLine == << <<Tok(0, 1), Tok(1, 2)>>, <<Tok(1, 1), Tok(1, 2)>> >>

\* "0,0.5": one point only, the split at ';' yields one piece
OnePointLine == << <<Tok(0, 1), Tok(1, 2)>> >>

\* "0,abc;1,0.5": float() rejects the second token
NonNumericLine ==
    << <<Tok(0, 1), [ok |-> FALSE, n |-> 0, d |-> 1]>>, <<Tok(1, 1), Tok(1, 2)>> >>

LineStrs == {DefaultLine, OnePointLine, NonNumericLine}

\* parse_normalized_line: <<Line>> or <<>> when it raises ValueError
parse_normalized_line(line_str, frame_w, frame_h) ==
    IF /\ Len(line_str) = 2
       /\ \A p \in 1..2 : Len(line_str[p]) = 2 /\ \A t \in 1..2 : line_str[p][t].ok
    THEN LET px(t, dim) == (t.n * dim) \div t.d
         IN  << [p1 |-> <<px(line_str[1][1], frame_w), px(line_str[1][2], frame_h)>>,
                 p2 |-> <<px(line_str[2][1], frame_w), px(line_str[2][2], frame_h)>>] >>
    ELSE <<>>

\* bounding boxes (x1, y1, x2, y2) the tracker reports; their centres lie
\* above, on and below the default line
Boxes == { <<1, 0, 3, 2>>, <<1, 1, 3, 3>>, <<1, 2, 3, 4>> }

\* centre of a box; the boxes above have even coordinate sums, so the
\* halving is exact
Centre(box) == << (box[1] + box[3]) \div 2, (box[2] + box[4]) \div 2 >>

\* ------------------------------ classifier -----------------------------
\* model.names: class id -> class name
ModelNames == (0 :> "Car") @@ (1 :> "person") @@ (2 :> "dog")

\* str.lower() on the class names that occur
Lower(s) == CASE s = "Car" -> "car"
              [] s = "Person" -> "person"
              [] OTHER -> s

DEFAULT_CLASS_TO_CATEGORY ==
    ("person" :> "Pedestrian") @@ ("bicycle" :> "2W") @@ ("motorbike" :> "2W")
    @@ ("motorcycle" :> "2W") @@ ("car" :> "Car") @@ ("bus" :> "Bus")
    @@ ("truck" :> "Truck") @@ ("auto" :> "3W") @@ ("autorickshaw" :> "3W")
    @@ ("rickshaw" :> "3W") @@ ("three-wheeler" :> "3W") @@ ("mini-truck" :> "LCV")
    @@ ("pickup" :> "LCV") @@ ("van" :> "LCV")

\* CountingConfig(class_map_overrides = overrides); overrides is <<>> for None
\* or <<dict>>
CountingConfig(overrides) ==
    [class_map_overrides |-> overrides,
     categories_order |-> <<"2W", "3W", "Car", "LCV", "Bus", "Truck">>,
     include_others |-> TRUE,
     pedestrian_label |-> "Pedestrian"]

\* contents of the --class-map JSON file: absent, or a map with one key in
\* lower case and one spelt as the model spells the class name
ClassMaps == { <<>>, << ("dog" :> "Tractor") @@ ("Car" :> "LCV") >> }

\* truthiness of an optional string
Truthy(v) == v # <<>> /\ v[1] # ""

\* category_for_class without the lower-casing of the class name
category_for_class_CaseSensitive(class_name, names_map, config) ==
    LET lower == class_name
        ov == config.class_map_overrides
        viaNames == Get(names_map, lower)
        mapped == IF Truthy(viaNames) THEN viaNames
                  ELSE Get(DEFAULT_CLASS_TO_CATEGORY, lower)
    IN  IF ov # <<>> /\ DOMAIN ov[1] # {} /\ lower \in DOMAIN ov[1]
        THEN <<ov[1][lower], ov[1][lower] = config.pedestrian_label>>
        ELSE IF Truthy(mapped)
        THEN <<mapped[1], mapped[1] = config.pedestrian_label>>
        ELSE IF lower \in {"person", "pedestrian"}
        THEN <<config.pedestrian_label, TRUE>>
        ELSE <<IF config.include_others THEN "Others" ELSE "Unknown", FALSE>>

\* category_for_class: <<category, is_pedestrian>>
category_for_class(class_name, names_map, config) ==
    LET lower == Lower(class_name)
        ov == config.class_map_overrides
        viaNames == Get(names_map, lower)
        mapped == IF Truthy(viaNames) THEN viaNames
                  ELSE Get(DEFAULT_CLASS_TO_CATEGORY, lower)
    IN  IF ov # <<>> /\ DOMAIN ov[1] # {} /\ lower \in DOMAIN ov[1]
        THEN <<ov[1][lower], ov[1][lower] = config.pedestrian_label>>
        ELSE IF Truthy(mapped)
        THEN <<mapped[1], mapped[1] = config.pedestrian_label>>
        ELSE IF lower \in {"person", "pedestrian"}
        THEN <<config.pedestrian_label, TRUE>>
        ELSE <<IF config.include_others THEN "Others" ELSE "Unknown", FALSE>>

Range(f) == {f[x] : x \in DOMAIN f}

\* names_lookup built from model.names with an empty names_map
BuildNamesLookup(config) ==
    [l \in {Lower(n) : n \in Range(ModelNames)} |->
        LET n == CHOOSE m \in Range(ModelNames) : Lower(m) = l
        IN  category_for_class(n, EmptyDict, config)[1]]

\* --------------------- count_vehicles_in_video --------------------------
\* counts prepared before the stream is read
InitCounts(config) ==
    LET base == [c \in Range(config.categories_order) |-> 0]
        withOthers == IF config.include_others THEN Put(base, "Others", 0) ELSE base
    IN  Put(withOthers, config.pedestrian_label, 0)

\* FreshLastSide for a side table that outlives the call
KeptLastSide == last_side

\* last_side = {} and counted_ids = set() at the start of every call
FreshLastSide == EmptyDict

FreshCountedIds == {}

\* IsCounted with the skip of counted identifiers left out
IsCountedNever(obj_id, ids) == FALSE

\* "Skip already counted IDs"
IsCounted(obj_id, ids) == obj_id \in ids

\* Crossing without the two tests for a side of exactly zero
CrossingIgnoringZero(prev, side_now) ==
    /\ prev # <<>>
    /\ (side_now > 0) # (prev[1] > 0)

\* the guards between the side computation and "Crossing detected"
Crossing(prev, side_now) ==
    /\ prev # <<>>
    /\ side_now # 0
    /\ prev[1] # 0
    /\ (side_now > 0) # (prev[1] > 0)

\* counts[category] += 1, creating the key if needed
Increment(cnts, category) ==
    LET c0 == IF category \notin DOMAIN cnts THEN Put(cnts, category, 0) ELSE cnts
    IN  [c0 EXCEPT ![category] = @ + 1]

\* one pass of the loop body over a detection d = [id, cls, box];
\* st = [counts, last_side, counted_ids]
ProcessDetection(st, d, line, names, config) ==
    IF IsCounted(d.id, st.counted_ids) THEN st
    ELSE LET side_now == Side(line, Centre(d.box))
             prev == Get(st.last_side, d.id)
             st1 == [st EXCEPT !.last_side = Put(st.last_side, d.id, side_now)]
         IN  IF ~Crossing(prev, side_now) THEN st1
             ELSE LET category == category_for_class(ModelNames[d.cls], names, config)[1]
                  IN  [st1 EXCEPT !.counts = Increment(st1.counts, category),
                                  !.counted_ids = @ \cup {d.id}]

Detections == [id : ObjIds, cls : DOMAIN ModelNames, box : Boxes]

\* --------------------------- interval rows -----------------------------
IntervalLabel(k, d) == hhmm(k * d) \o <<"-">> \o hhmm(k * d + d)

\* int(counts.get(col, 0))
CountOf(cnts, col) == IF col \in DOMAIN cnts THEN cnts[col] ELSE 0

\* RowTotal that forgets the Others column
RowTotalWithoutOthers(row, config) ==
    SumSeq([k \in 1..Len(config.categories_order) |->
                CountOf(row, config.categories_order[k])])

\* "Total excludes pedestrians by convention": sum of the category columns
\* of the row, plus Others when enabled
RowTotal(row, config) ==
    SumSeq([k \in 1..Len(config.categories_order) |->
                CountOf(row, config.categories_order[k])])
        + (IF config.include_others THEN CountOf(row, "Others") ELSE 0)

\* RowOf that leaves the Pedestrian column at 0
RowOfPedestrianDropped(interval_str, cnts, config) ==
    LET r1 == [c \in Range(config.categories_order) |-> CountOf(cnts, c)]
        r2 == IF config.include_others THEN Put(r1, "Others", CountOf(cnts, "Others")) ELSE r1
        r3 == Put(r2, "Total", RowTotal(r2, config))
        r4 == Put(r3, config.pedestrian_label, 0)
    IN  Put(r4, "Interval", interval_str)

\* the row built from a clip's counts
RowOf(interval_str, cnts, config) ==
    LET r1 == [c \in Range(config.categories_order) |-> CountOf(cnts, c)]
        r2 == IF config.include_others THEN Put(r1, "Others", CountOf(cnts, "Others")) ELSE r1
        r3 == Put(r2, "Total", RowTotal(r2, config))
        r4 == Put(r3, config.pedestrian_label, CountOf(cnts, config.pedestrian_label))
    IN  Put(r4, "Interval", interval_str)

\* DailyTotals that copies the last interval row instead of summing
DailyTotalsLastRow(recs) ==
    [col \in DOMAIN recs[1] |->
        IF col = "Interval" THEN DailyTotalLabel ELSE recs[Len(recs)][col]]

\* df[col].sum() for every column, "Daily Total" as the Interval
DailyTotals(recs) ==
    [col \in DOMAIN recs[1] |->
        IF col = "Interval" THEN DailyTotalLabel
        ELSE SumSeq([k \in 1..Len(recs) |-> recs[k][col]])]

\* pd.concat([df, totals]): the records followed by the totals row
WithDailyTotal(recs) == recs \o <<DailyTotals(recs)>>

ExportCols(config) ==
    <<"Interval">> \o config.categories_order
        \o (IF config.include_others THEN <<"Others">> ELSE <<>>)
        \o <<"Total", config.pedestrian_label>>

\* df[export_cols]
Project(table, cols) ==
    [k \in 1..Len(table) |-> [c \in Range(cols) |-> table[k][c]]]

\* the for loop over enumerate(sorted(clips)) is exhausted
LoopDone(idx, clipList) == idx = Len(clipList)

\* --base-start values: "00:00" (the default) and "06:00"
BaseStarts == { <<"0", "0", ":", "0", "0">>, <<"0", "6", ":", "0", "0">> }

\* base_dt: datetime.strptime(base_start_hhmm, "%H:%M") as minutes from
\* midnight, 00:00 when the string does not parse
base_dt(hhmm_str) ==
    LET x == Split(hhmm_str, ":")
        ok == /\ Len(x) = 2
              /\ \A k \in 1..2 : IsDigits(x[k]) /\ Len(x[k]) <= 2
              /\ ParseInt(x[1]) < 24
              /\ ParseInt(x[2]) < 60
    IN  IF ok THEN ParseInt(x[1]) * 60 + ParseInt(x[2]) ELSE 0

\* compute_hour_bins that keeps, for each hour, the largest Total of its
\* rows instead of their sum
compute_hour_bins_MaxOfHour(data) ==
    LET rows == SelectSeq(data, LAMBDA r : r["Interval"] # DailyTotalLabel)
        group_key(k) == StartMin(rows[k]["Interval"]) \div 60
    IN  [h \in {group_key(k) : k \in 1..Len(rows)} |->
            CHOOSE v \in {rows[k]["Total"] : k \in {j \in 1..Len(rows) : group_key(j) = h}} :
                \A k \in {j \in 1..Len(rows) : group_key(j) = h} : rows[k]["Total"] <= v]

\* compute_hour_bins: hour -> sum of Total over the interval rows whose
\* start minute lies in the hour; the Daily Total row is left out
compute_hour_bins(data) ==
    LET rows == SelectSeq(data, LAMBDA r : r["Interval"] # DailyTotalLabel)
        group_key(k) == StartMin(rows[k]["Interval"]) \div 60
    IN  [h \in {group_key(k) : k \in 1..Len(rows)} |->
            SumSeq([k \in 1..Len(rows) |->
                        IF group_key(k) = h THEN rows[k]["Total"] ELSE 0])]

\* peak_in_range that keeps the last of several hours with the largest total
peak_in_range_LastOfTie(series, start_h, end_h, label) ==
    LET window == {h \in DOMAIN series : h >= start_h /\ h < end_h}
    IN  IF window = {}
        THEN [label |-> label, interval |-> NotAvailable, total |-> 0]
        ELSE LET top == CHOOSE v \in {series[h] : h \in window} :
                            \A h \in window : series[h] <= v
                 hour == CHOOSE h \in window :
                            /\ series[h] = top
                            /\ \A g \in window : series[g] = top => h >= g
             IN  [label |-> label, interval |-> HourLabel(hour),
                  total |-> series[hour]]

\* peak_in_range: the first hour of the window with the largest total, or
\* the N/A result when the window is empty
peak_in_range(series, start_h, end_h, label) ==
    LET window == {h \in DOMAIN series : h >= start_h /\ h < end_h}
    IN  IF window = {}
        THEN [label |-> label, interval |-> NotAvailable, total |-> 0]
        ELSE LET top == CHOOSE v \in {series[h] : h \in window} :
                            \A h \in window : series[h] <= v
                 hour == CHOOSE h \in window :
                            /\ series[h] = top
                            /\ \A g \in window : series[g] = top => h <= g
             IN  [label |-> label, interval |-> HourLabel(hour),
                  total |-> series[hour]]

\* --morning and --evening windows of the invocations: a morning window
\* from midnight, which holds the hours of a short video, and the default
\* evening window, which holds none of them
MorningRanges == { <<0, 12>> }

EveningRanges == { <<16, 21>> }

\* peaks = {"morning": ..., "evening": ...}
PeaksOf(series, morning, evening) ==
    [morning |-> peak_in_range(series, morning[1], morning[2], "Morning"),
     evening |-> peak_in_range(series, evening[1], evening[2], "Evening")]

\* --------------------------- the state machine -------------------------
\* --interval-mins choices
Intervals == {15, 30}

NoHits == [id \in ObjIds |-> 0]

SumCounts(cnts) ==
    LET keys == DOMAIN cnts
        RECURSIVE Acc(_)
        Acc(S) == IF S = {} THEN 0
                  ELSE LET k == CHOOSE x \in S : TRUE IN cnts[k] + Acc(S \ {k})
    IN  Acc(keys)

\* the state of the counting part before any invocation
NoCounter ==
    /\ counts = EmptyDict
    /\ last_side = EmptyDict
    /\ counted_ids = {}
    /\ names_lookup = EmptyDict
    /\ pos = 0
    /\ seen = {}
    /\ hits = NoHits
    /\ later = 0

\* no call of count_vehicles_in_video is active
ResetCounter ==
    /\ counts' = EmptyDict
    /\ last_side' = EmptyDict
    /\ counted_ids' = {}
    /\ names_lookup' = EmptyDict
    /\ pos' = 0
    /\ seen' = {}
    /\ hits' = NoHits
    /\ later' = 0

\* atcc_analysis.main has not run
NoAnalysis ==
    /\ daily = <<>>
    /\ pcu_map = EmptyDict
    /\ adt_counts = <<>>
    /\ pcu_adt = <<>>
    /\ peak_tables = <<>>
    /\ saved = <<>>

\* process_full_day has not been called
NoRun ==
    /\ run = 0
    /\ status = "none"
    /\ error = "none"
    /\ video = 0
    /\ cfg = CountingConfig(<<>>)
    /\ clip_files = {}
    /\ clips = <<>>
    /\ i = 0
    /\ records = <<>>
    /\ NoCounter
    /\ df = <<>>
    /\ exported = <<>>
    /\ countedBefore = {}
    /\ visited = <<>>
    /\ processed = EmptyDict
    /\ failedAt = -1

Init ==
    /\ pc = "idle"
    /\ NoAnalysis
    /\ NoRun
    /\ interval_minutes \in Intervals
    /\ line_norm \in LineStrs
    /\ class_map_json \in ClassMaps
    /\ base_start_hhmm \in BaseStarts
    /\ morning_range \in MorningRanges
    /\ evening_range \in EveningRanges
    /\ hourly = EmptyDict
    /\ peaks = <<>>

\* the command line defaults, for the settings a specification does not vary
DefaultSettings ==
    /\ interval_minutes = 15
    /\ line_norm = DefaultLine
    /\ class_map_json = <<>>
    /\ base_start_hhmm = <<"0", "0", ":", "0", "0">>

\* process_full_day is called: class map loaded, config built, video split,
\* records = []
StartWith(v) ==
    /\ pc = "idle"
    /\ run < MaxRuns
    /\ pc' = "loop"
    /\ run' = run + 1
    /\ status' = "running"
    /\ video' = v
    /\ cfg' = CountingConfig(class_map_json)
    /\ clip_files' = clip_files \cup (0..(v - 1))
    /\ clips' = split_video_ffmpeg(clip_files, v)
    /\ i' = 0
    /\ records' = <<>>
    /\ df' = <<>>
    /\ exported' = <<>>
    /\ visited' = <<>>
    /\ countedBefore' = {}
    /\ processed' = IF v = video /\ status = "failed" THEN processed ELSE EmptyDict
    /\ failedAt' = -1
    /\ hourly' = EmptyDict
    /\ peaks' = <<>>
    /\ error' = "none"
    /\ ResetCounter
    /\ UNCHANGED <<interval_minutes, line_norm, class_map_json, base_start_hhmm,
                   morning_range, evening_range, analysisVars>>

Start == \E v \in 1..MaxClips : StartWith(v)

\* count_vehicles_in_video is entered for clip i: the line is parsed, the
\* counters and the track state are created, names_lookup is built
BeginClip ==
    /\ pc = "loop"
    /\ ~LoopDone(i, clips)
    /\ parse_normalized_line(line_norm, Frame.w, Frame.h) # <<>>
    /\ pc' = "clip"
    /\ counts' = InitCounts(cfg)
    /\ last_side' = FreshLastSide
    /\ counted_ids' = FreshCountedIds
    /\ names_lookup' = BuildNamesLookup(cfg)
    /\ pos' = 0
    /\ seen' = {}
    /\ hits' = NoHits
    /\ later' = 0
    /\ UNCHANGED <<run, status, video, interval_minutes, line_norm, class_map_json, cfg, clip_files,
                   clips, i, records, df, exported, countedBefore,
                   visited, processed, failedAt>>
    /\ UNCHANGED <<base_start_hhmm, morning_range, evening_range, hourly, peaks,
                   error, analysisVars>>

\* the loop body runs on the next detection of the stream
Observe(d) ==
    /\ pc = "clip"
    /\ pos < MaxObs
    /\ LET line == parse_normalized_line(line_norm, Frame.w, Frame.h)[1]
           st == ProcessDetection([counts |-> counts, last_side |-> last_side,
                                   counted_ids |-> counted_ids],
                                  d, line, names_lookup, cfg)
       IN  /\ counts' = st.counts
           /\ last_side' = st.last_side
           /\ counted_ids' = st.counted_ids
           /\ hits' = [hits EXCEPT ![d.id] = @ + SumCounts(st.counts) - SumCounts(counts)]
    /\ pos' = pos + 1
    /\ seen' = seen \cup {d.id}
    /\ later' = later + (IF hits[d.id] >= 1 THEN 1 ELSE 0)
    /\ UNCHANGED <<pc, run, status, video, interval_minutes, line_norm, class_map_json, cfg,
                   clip_files, clips, i, records, names_lookup, df, exported,
                   countedBefore, visited, processed, failedAt>>
    /\ UNCHANGED <<base_start_hhmm, morning_range, evening_range, hourly, peaks,
                   error, analysisVars>>

ObserveAny == \E d \in Detections : Observe(d)

\* the stream ends: count_vehicles_in_video returns counts, the row is built
\* and appended
EndClip ==
    /\ pc = "clip"
    /\ pc' = "loop"
    /\ records' = Append(records, RowOf(IntervalLabel(i, interval_minutes), counts, cfg))
    /\ i' = i + 1
    /\ visited' = Append(visited, clips[i + 1])
    /\ processed' = Put(processed, clips[i + 1], CountOf(processed, clips[i + 1]) + 1)
    /\ countedBefore' = countedBefore \cup counted_ids
    /\ pos' = 0
    /\ seen' = {}
    /\ hits' = NoHits
    /\ later' = 0
    /\ UNCHANGED <<run, status, video, interval_minutes, line_norm, class_map_json, cfg, clip_files,
                   clips, counts, last_side, counted_ids, names_lookup, df,
                   exported, failedAt>>
    /\ UNCHANGED <<base_start_hhmm, morning_range, evening_range, hourly, peaks,
                   error, analysisVars>>

\* Raise for a handler that still writes the table of the rows it has
ExportPartialOnRaise ==
    /\ pc' = "idle"
    /\ status' = "failed"
    /\ failedAt' = i
    /\ df' = IF records = <<>> THEN df
             ELSE Project(WithDailyTotal(records), ExportCols(cfg))
    /\ exported' = IF records = <<>> THEN exported ELSE Append(exported, df')
    /\ records' = <<>>
    /\ pos' = 0
    /\ seen' = {}
    /\ hits' = NoHits
    /\ later' = 0
    /\ UNCHANGED <<run, video, interval_minutes, line_norm, class_map_json, cfg,
                   clip_files, clips, i, counts, last_side, counted_ids,
                   names_lookup, countedBefore, visited, processed>>
    /\ UNCHANGED <<base_start_hhmm, morning_range, evening_range, hourly, peaks,
                   analysisVars>>

\* an exception leaves process_full_day: the frame and its locals are gone;
\* the caller of Raise says which exception it is
Raise ==
    /\ pc' = "idle"
    /\ status' = "failed"
    /\ failedAt' = i
    /\ records' = <<>>
    /\ pos' = 0
    /\ seen' = {}
    /\ hits' = NoHits
    /\ later' = 0
    /\ UNCHANGED <<run, video, interval_minutes, line_norm, class_map_json, cfg, clip_files, clips,
                   i, counts, last_side, counted_ids, names_lookup, df, exported,
                   countedBefore, visited, processed>>
    /\ UNCHANGED <<base_start_hhmm, morning_range, evening_range, hourly, peaks,
                   analysisVars>>

\* the capture cannot be opened or the tracker raises while clip i is read
ClipFail == pc = "clip" /\ Raise /\ error' = "RuntimeError"

\* count_vehicles_in_video parses the counting line when it is entered for
\* a clip: a malformed --line raises ValueError there
LineFail ==
    /\ pc = "loop"
    /\ ~LoopDone(i, clips)
    /\ parse_normalized_line(line_norm, Frame.w, Frame.h) = <<>>
    /\ Raise
    /\ error' = "ValueError"

\* KeyboardInterrupt between two clips
Interrupt == pc = "loop" /\ ~LoopDone(i, clips) /\ Raise /\ error' = "KeyboardInterrupt"

\* after the last clip: Daily Total row, hour bins, peaks, export, return
Finish ==
    /\ pc = "loop"
    /\ LoopDone(i, clips)
    /\ df' = Project(WithDailyTotal(records), ExportCols(cfg))
    /\ hourly' = compute_hour_bins(WithDailyTotal(records))
    /\ peaks' = PeaksOf(hourly', morning_range, evening_range)
    /\ exported' = Append(exported, df')
    /\ status' = "done"
    /\ pc' = "idle"
    /\ records' = <<>>
    /\ UNCHANGED <<run, video, interval_minutes, line_norm, class_map_json, cfg, clip_files, clips,
                   i, counts, last_side, counted_ids, names_lookup, pos, seen,
                   hits, later, countedBefore, visited, processed, failedAt,
                   base_start_hhmm, morning_range, evening_range, error,
                   analysisVars>>

\* The day-level specification follows one tracked object per clip, of any
\* class and position, through any number of invocations.
DayDetections == {d \in Detections : d.id = 1}

ObserveDay == \E d \in DayDetections : Observe(d)

Next ==
    \/ Start \/ BeginClip \/ LineFail \/ ObserveDay \/ EndClip \/ ClipFail
    \/ Interrupt \/ Finish

Spec == Init /\ [][Next]_vars

\* The clip-level specification: one invocation on a video of one segment,
\* whose stream holds detections of every identifier, class and position.
StartSingle == run = 0 /\ StartWith(1)

NextCount == StartSingle \/ BeginClip \/ LineFail \/ ObserveAny \/ EndClip \/ Finish

SpecCount == Init /\ [][NextCount]_vars

\* The ordering specification: one invocation on a short or a long video.
\* Every odd segment of the video shows one car crossing the line, every
\* even segment shows nothing.
LongStream(c) ==
    IF c % 2 = 1
    THEN << [id |-> 1, cls |-> 0, box |-> <<1, 0, 3, 2>>],
            [id |-> 1, cls |-> 0, box |-> <<1, 2, 3, 4>>] >>
    ELSE <<>>

StartLong == run = 0 /\ \E v \in {MaxClips, LongVideo} : StartWith(v)

ObserveLong ==
    /\ pc = "clip"
    /\ pos < Len(LongStream(clips[i + 1]))
    /\ Observe(LongStream(clips[i + 1])[pos + 1])

EndClipLong ==
    /\ pc = "clip"
    /\ pos = Len(LongStream(clips[i + 1]))
    /\ EndClip

NextOrder == StartLong \/ BeginClip \/ ObserveLong \/ EndClipLong \/ Finish

InitOrder ==
    /\ Init
    /\ class_map_json = <<>>
    /\ line_norm = DefaultLine
    /\ base_start_hhmm = <<"0", "0", ":", "0", "0">>

SpecOrder == InitOrder /\ [][NextOrder]_vars

\* The hours specification: one invocation on a short video or on one that
\* runs for several days, with the streams of the ordering specification.
StartHours == run = 0 /\ \E v \in {MaxClips, MultiDayVideo} : StartWith(v)

NextHours == StartHours \/ BeginClip \/ ObserveLong \/ EndClipLong \/ Finish

SpecHours == InitOrder /\ [][NextHours]_vars

\* --------------------- multi-day analysis: functions --------------------
CATS == <<"2W", "3W", "Car", "LCV", "Bus", "Truck", "Others", "Total", "Pedestrian">>

\* the columns of a table (of its first row)
Columns(table) == IF table = <<>> THEN {} ELSE DOMAIN table[1]

\* df[col].sum()
ColumnSum(table, col) == SumSeq([k \in 1..Len(table) |-> table[k][col]])

\* round() of the fraction num/den >= 0: to the nearest integer, a half to
\* the even neighbour
RoundHalfEven(num, den) ==
    LET q == num \div den
        r == num % den
    IN  IF 2 * r < den THEN q
        ELSE IF 2 * r > den THEN q + 1
        ELSE IF q % 2 = 0 THEN q ELSE q + 1

\* SynthTotals that copies the day's last row instead of summing
SynthTotalsLastRow(table) ==
    [col \in Columns(table) |->
        IF col = "Interval" THEN DailyTotalLabel
        ELSE IF col \in Range(CATS) THEN table[Len(table)][col]
        ELSE "None"]

\* "sum to emulate": the Daily Total row built for a day that has none
SynthTotals(table) ==
    [col \in Columns(table) |->
        IF col = "Interval" THEN DailyTotalLabel
        ELSE IF col \in Range(CATS) THEN ColumnSum(table, col)
        ELSE "None"]

\* the rows one day adds to daily_totals: none for an empty table, its
\* Daily Total rows, or the emulated one
DayTotalRows(table) ==
    IF table = <<>> THEN <<>>
    ELSE LET tot == SelectSeq(table, LAMBDA r : r["Interval"] = DailyTotalLabel)
         IN  IF tot = <<>> THEN <<SynthTotals(table)>> ELSE tot

RECURSIVE StackTotals(_, _)
\* daily_totals after the first k days, concatenated
StackTotals(daily_dfs, k) ==
    IF k = 0 THEN <<>>
    ELSE StackTotals(daily_dfs, k - 1) \o DayTotalRows(daily_dfs[k])

\* AvgDailyCount that forgets to divide by the number of days
AvgDailyCountSummed(values) == SumSeq(values)

\* int(round(avg[c])): the rounded mean of a column of the stacked totals
AvgDailyCount(values) == RoundHalfEven(SumSeq(values), Len(values))

\* compute_adt: one row per category column of the first day's totals
compute_adt(daily_dfs) ==
    LET stacked == StackTotals(daily_dfs, Len(daily_dfs))
    IN  IF stacked = <<>> THEN <<>>
        ELSE LET cat_cols == SelectSeq(CATS, LAMBDA c : c \in DOMAIN stacked[1])
                 present(c) == SelectSeq(stacked, LAMBDA r : c \in DOMAIN r)
                 column(c) == [k \in 1..Len(present(c)) |-> present(c)[k][c]]
             IN  [k \in 1..Len(cat_cols) |->
                    ("Vehicle Category" :> cat_cols[k])
                    @@ ("Avg Daily Count" :> AvgDailyCount(column(cat_cols[k])))]

\* PcuFactor with a default factor of 0
PcuFactorDefaultZero(factors, category) ==
    IF category \in DOMAIN factors THEN factors[category] ELSE <<0, 1>>

\* float(pcu_map.get(category, 1.0)) as a fraction <<numerator, denominator>>
PcuFactor(factors, category) ==
    IF category \in DOMAIN factors THEN factors[category] ELSE <<1, 1>>

\* compute_pcu: the ADT rows with the column Avg Daily PCU added
compute_pcu(df_counts, factors) ==
    [k \in 1..Len(df_counts) |->
        LET f == PcuFactor(factors, df_counts[k]["Vehicle Category"])
        IN  df_counts[k] @@
            ("Avg Daily PCU" :> RoundHalfEven(df_counts[k]["Avg Daily Count"] * f[1], f[2]))]

RECURSIVE SortedSeq(_)
\* the elements of a set of integers in ascending order
SortedSeq(S) ==
    IF S = {} THEN <<>>
    ELSE LET m == CHOOSE x \in S : \A y \in S : x <= y
         IN  <<m>> \o SortedSeq(S \ {m})

\* max() of a non-empty sequence of integers
MaxSeq(values) == CHOOSE v \in Range(values) : \A w \in Range(values) : w <= v

\* round(phf, 3) of max_q * 4 / hour_total, in thousandths (no quotient of
\* the sizes met here lies midway between two floats, so the rounding of the
\* fraction is that of the float)
Phf(max_q, hour_total) ==
    IF hour_total > 0 THEN RoundHalfEven(max_q * 4 * 1000, hour_total) ELSE 0

\* compute_peak_hour_and_phf: one row per hour that has interval rows
compute_peak_hour_and_phf(table) ==
    LET data == SelectSeq(table, LAMBDA r : r["Interval"] # DailyTotalLabel)
        total(r) == IF "Total" \in Columns(table) THEN r["Total"] ELSE 0
        hour(r) == StartMin(r["Interval"]) \div 60
        hours == SortedSeq({hour(data[k]) : k \in 1..Len(data)})
        group(h) == SelectSeq(data, LAMBDA r : hour(r) = h)
        totals(h) == [k \in 1..Len(group(h)) |-> total(group(h)[k])]
    IN  [n \in 1..Len(hours) |->
            LET hour_total == SumSeq(totals(hours[n]))
                max_q == MaxSeq(totals(hours[n]))
            IN  ("Hour" :> HourLabel(hours[n]))
                @@ ("Hourly Total" :> hour_total)
                @@ ("Highest 15-min Volume" :> max_q)
                @@ ("PHF" :> Phf(max_q, hour_total))]

\* ------------------- multi-day analysis: main ----------------------------
\* counts of an interval row: only pedestrians, one car, two cars and a bus
RowKinds ==
    { [Car |-> 0, Bus |-> 0, Pedestrian |-> 1],
      [Car |-> 1, Bus |-> 0, Pedestrian |-> 0],
      [Car |-> 2, Bus |-> 1, Pedestrian |-> 1] }

\* a row of a report file, with or without the Total column
ReportRow(label, kind, hasTotal) ==
    ("Interval" :> label)
    @@ [c \in {"2W", "3W", "LCV", "Truck", "Others"} |-> 0]
    @@ ("Car" :> kind.Car) @@ ("Bus" :> kind.Bus) @@ ("Pedestrian" :> kind.Pedestrian)
    @@ (IF hasTotal THEN ("Total" :> kind.Car + kind.Bus) ELSE EmptyDict)

\* a report file: interval rows of d minutes, then the Daily Total row when
\* the file has one
DayTable(d, kinds, hasDailyTotal, hasTotal) ==
    LET rows == [k \in 1..Len(kinds) |->
                    ReportRow(IntervalLabel(k - 1, d), kinds[k], hasTotal)]
    IN  IF hasDailyTotal /\ rows # <<>> THEN WithDailyTotal(rows) ELSE rows

SeqsUpTo(S, n) == UNION {[1..k -> S] : k \in 0..n}

\* the tables of a single day: written by the pipeline or supplied from
\* elsewhere, of either interval length
DayTables ==
    {DayTable(d, kinds, dt, tot) :
        d \in Intervals, kinds \in SeqsUpTo(RowKinds, MaxRows),
        dt \in BOOLEAN, tot \in BOOLEAN}

\* the tables of the days of a week: 15-minute rows with vehicles
WeekTables ==
    {DayTable(15, kinds, dt, TRUE) :
        kinds \in SeqsUpTo({k \in RowKinds : k.Car > 0}, MaxRows), dt \in BOOLEAN}

\* the report files found: none, one day of any shape, or several days
\* (several days are analysed with the default factors)
DailyInputs ==
    {<<>>} \cup {<<t>> : t \in DayTables}
        \cup UNION {[1..n -> WeekTables] : n \in 2..MaxDays}

\* load_daily_csvs: the tables in file order, each with its file (here its
\* number) in the column _source_file
load_daily_csvs(files) ==
    [k \in 1..Len(files) |->
        [r \in 1..Len(files[k]) |-> files[k][r] @@ ("_source_file" :> k)]]

\* the default of --pcu
DefaultPcu ==
    ("2W" :> <<1, 2>>) @@ ("3W" :> <<1, 1>>) @@ ("Car" :> <<1, 1>>)
    @@ ("LCV" :> <<3, 2>>) @@ ("Bus" :> <<3, 1>>) @@ ("Truck" :> <<3, 1>>)
    @@ ("Others" :> <<3, 2>>) @@ ("Pedestrian" :> <<3, 10>>)

\* --pcu '{"Car": 2.5}': a factor for one category only
CarOnlyPcu == ("Car" :> <<5, 2>>)

PcuMaps == {DefaultPcu, CarOnlyPcu}

\* everything but pc, error and the state of main
pipelineVars ==
    <<run, status, video, interval_minutes, line_norm, class_map_json, cfg,
      clip_files, clips, i, records, counts, last_side, counted_ids,
      names_lookup, pos, df, exported, seen, hits, later, countedBefore,
      visited, processed, failedAt, base_start_hhmm, morning_range,
      evening_range, hourly, peaks>>

InitAnalysis ==
    /\ pc = "adt"
    /\ NoRun
    /\ DefaultSettings
    /\ morning_range \in MorningRanges
    /\ evening_range \in EveningRanges
    /\ hourly = EmptyDict
    /\ peaks = <<>>
    /\ daily \in {load_daily_csvs(files) : files \in DailyInputs}
    /\ pcu_map \in PcuMaps
    /\ pcu_map = DefaultPcu \/ Len(daily) <= 1
    /\ adt_counts = <<>>
    /\ pcu_adt = <<>>
    /\ peak_tables = <<>>
    /\ saved = <<>>

\* "No daily CSVs found."
NoDailyCsvs ==
    /\ pc = "adt"
    /\ daily = <<>>
    /\ pc' = "end"
    /\ UNCHANGED <<pipelineVars, error, analysisVars>>

ComputeAdt ==
    /\ pc = "adt"
    /\ daily # <<>>
    /\ pc' = "pcu"
    /\ adt_counts' = compute_adt(daily)
    /\ UNCHANGED <<pipelineVars, error, daily, pcu_map, pcu_adt, peak_tables, saved>>

\* compute_pcu; on the empty frame compute_adt returns when every day is
\* empty, the columns it selects are missing and it raises
ComputePcu ==
    /\ pc = "pcu"
    /\ IF adt_counts = <<>>
       THEN /\ pc' = "end"
            /\ error' = "KeyError"
            /\ pcu_adt' = pcu_adt
       ELSE /\ pc' = "peak"
            /\ error' = error
            /\ pcu_adt' = compute_pcu(adt_counts, pcu_map)
    /\ UNCHANGED <<pipelineVars, daily, pcu_map, adt_counts, peak_tables, saved>>

\* phf_df.insert(0, "Day", src)
WithDay(src, rows) == [k \in 1..Len(rows) |-> rows[k] @@ ("Day" :> src)]

\* the peak table of the next day; the file name is read from the day's
\* first row, which raises for a day without rows
PeakTable ==
    /\ pc = "peak"
    /\ Len(peak_tables) < Len(daily)
    /\ LET day == daily[Len(peak_tables) + 1]
       IN  IF day = <<>>
           THEN /\ pc' = "end"
                /\ error' = "KeyError"
                /\ peak_tables' = peak_tables
           ELSE /\ pc' = pc
                /\ error' = error
                /\ peak_tables' = Append(peak_tables,
                        WithDay(day[1]["_source_file"], compute_peak_hour_and_phf(day)))
    /\ UNCHANGED <<pipelineVars, daily, pcu_map, adt_counts, pcu_adt, saved>>

RECURSIVE Concat(_, _)
\* pd.concat of the first k tables of a list
Concat(tables, k) == IF k = 0 THEN <<>> ELSE Concat(tables, k - 1) \o tables[k]

\* the workbook ATCC_Weekly_Summary.xlsx is written
SaveSummary ==
    /\ pc = "peak"
    /\ Len(peak_tables) = Len(daily)
    /\ pc' = "end"
    /\ saved' = << [ADT |-> adt_counts, PCU_ADT |-> pcu_adt,
                    PeakHour |-> Concat(peak_tables, Len(peak_tables))] >>
    /\ UNCHANGED <<pipelineVars, error, daily, pcu_map, adt_counts, pcu_adt, peak_tables>>

NextAnalysis == NoDailyCsvs \/ ComputeAdt \/ ComputePcu \/ PeakTable \/ SaveSummary

SpecAnalysis == InitAnalysis /\ [][NextAnalysis]_vars

\* ------------------------- compute_adt alone ------------------------------
\* compute_adt applied to lists of days of any make-up: tables without rows,
\* tables of one 15-minute row, with or without the Daily Total row, written
\* by the pipeline or supplied without the Total column.
SuppliedTables ==
    {DayTable(15, kinds, dt, tot) :
        kinds \in SeqsUpTo(RowKinds, 1), dt \in BOOLEAN, tot \in BOOLEAN}

SuppliedInputs == UNION {[1..n -> SuppliedTables] : n \in 1..MaxDays}

InitAdt ==
    /\ pc = "adt"
    /\ NoRun
    /\ DefaultSettings
    /\ morning_range \in MorningRanges
    /\ evening_range \in EveningRanges
    /\ hourly = EmptyDict
    /\ peaks = <<>>
    /\ daily \in {load_daily_csvs(files) : files \in SuppliedInputs}
    /\ pcu_map = DefaultPcu
    /\ adt_counts = <<>>
    /\ pcu_adt = <<>>
    /\ peak_tables = <<>>
    /\ saved = <<>>

NextAdt == ComputeAdt

SpecAdt == InitAdt /\ [][NextAdt]_vars

\* ------------------------- peak selection alone -------------------------
\* peak_in_range applied to hourly totals of any shape: totals up to
\* MaxHourTotal for any set of the hours below, and windows that hold
\* several, one or none of them.
PeakHours == {0, 6, 7, 8}

HourlySeries == UNION {[S -> 0..MaxHourTotal] : S \in SUBSET PeakHours}

PeakWindows == { <<6, 12>>, <<7, 8>>, <<16, 21>> }

InitPeak ==
    /\ pc = "peaks"
    /\ NoAnalysis
    /\ NoRun
    /\ DefaultSettings
    /\ hourly \in HourlySeries
    /\ morning_range \in PeakWindows
    /\ evening_range \in PeakWindows
    /\ peaks = <<>>

\* morning_peak and evening_peak are computed from the hourly totals
PeakInRanges ==
    /\ pc = "peaks"
    /\ pc' = "idle"
    /\ peaks' = PeaksOf(hourly, morning_range, evening_range)
    /\ UNCHANGED <<run, status, video, interval_minutes, line_norm, class_map_json,
                   cfg, clip_files, clips, i, records, counts, last_side,
                   counted_ids, names_lookup, pos, df, exported, seen, hits,
                   later, countedBefore, visited, processed, failedAt,
                   base_start_hhmm, morning_range, evening_range, hourly, error,
                   analysisVars>>

NextPeak == PeakInRanges

SpecPeak == InitPeak /\ [][NextPeak]_vars

\* ------------------------- one interval row alone -----------------------
\* The row building of process_full_day applied to counts mappings of any
\* shape: the keys count_vehicles_in_video prepares, with counts up to
\* MaxCount for five of them, and, when an override names a category outside
\* the schema, that category as an extra key.
VariedKeys == {"2W", "Car", "Bus", "Others", "Pedestrian"}

CountMappings ==
    {c @@ InitCounts(CountingConfig(<<>>)) : c \in [VariedKeys -> 0..MaxCount]}
        \cup {("Tractor" :> n) @@ c @@ InitCounts(CountingConfig(<<>>)) :
                    n \in 1..MaxCount, c \in [VariedKeys -> 0..MaxCount]}

InitRow ==
    /\ pc = "row"
    /\ NoAnalysis
    /\ NoRun
    /\ DefaultSettings
    /\ morning_range \in MorningRanges
    /\ evening_range \in EveningRanges
    /\ hourly = EmptyDict
    /\ peaks = <<>>

\* count_vehicles_in_video returns a counts mapping for the first clip and
\* the row is built from it and appended
BuildRow ==
    /\ pc = "row"
    /\ pc' = "idle"
    /\ \E cnts \in CountMappings :
            /\ counts' = cnts
            /\ records' = Append(records, RowOf(IntervalLabel(i, interval_minutes), cnts, cfg))
    /\ UNCHANGED <<run, status, video, interval_minutes, line_norm, class_map_json,
                   cfg, clip_files, clips, i, last_side, counted_ids,
                   names_lookup, pos, df, exported, seen, hits, later,
                   countedBefore, visited, processed, failedAt,
                   base_start_hhmm, morning_range, evening_range, hourly,
                   peaks, error, analysisVars>>

NextRow == BuildRow

SpecRow == InitRow /\ [][NextRow]_vars

\* ------------------------------ claims ---------------------------------
\* side of the counting line a detection's box centre lies on
SideOfDet(d) ==
    Side(parse_normalized_line(line_norm, Frame.w, Frame.h)[1], Centre(d.box))

\* C1: within one clip every identifier causes at most one counter
\* increment, and an observation of an identifier that has already caused
\* one leaves every counter unchanged.
C1_AtMostOneCountPerId ==
    /\ [](\A id \in ObjIds : hits[id] <= 1)
    /\ [][\A d \in Detections :
            (Observe(d) /\ hits[d.id] >= 1) => counts' = counts]_vars

\* an identifier was counted and then observed again in the same clip
C1_Witness == pc = "clip" /\ later >= 1 /\ \E id \in ObjIds : hits[id] = 1

\* C2: an observation that is the identifier's first in the clip, or whose
\* new side or stored previous side is exactly zero, increments no counter;
\* for a not yet counted identifier it stores the new side and leaves the
\* identifier uncounted.
C2_NoCountOnFirstOrZero ==
    [][\A d \in Detections :
        (/\ Observe(d)
         /\ \/ d.id \notin seen
            \/ SideOfDet(d) = 0
            \/ d.id \in DOMAIN last_side /\ last_side[d.id] = 0)
        => /\ counts' = counts
           /\ hits' = hits
           /\ hits[d.id] = 0 =>
                /\ d.id \in DOMAIN last_side'
                /\ last_side'[d.id] = SideOfDet(d)
                /\ d.id \notin counted_ids']_vars

\* the second observation of an identifier found it exactly on the line:
\* the zero side is stored and the identifier is uncounted
C2_Witness ==
    /\ pc = "clip"
    /\ pos = 2
    /\ \E id \in ObjIds :
        /\ seen = {id}
        /\ last_side[id] = 0
        /\ id \notin counted_ids
        /\ hits[id] = 0

\* the category the class label of a detection is counted under (the
\* classifier looks up "car" and so does not find the override key "Car")
C3_Expected(d) ==
    CASE ModelNames[d.cls] = "Car" -> "Car"
      [] ModelNames[d.cls] = "person" -> "Pedestrian"
      [] ModelNames[d.cls] = "dog" ->
            IF class_map_json = <<>> THEN "Others" ELSE "Tractor"

\* C3: when a not yet counted identifier is observed with a non-zero side
\* whose sign differs from the non-zero side stored at its previous
\* observation, the counter of the category of that detection's class label
\* goes up by exactly 1, every other counter is unchanged and the identifier
\* becomes counted.
C3_CrossingCountsOnce ==
    [][\A d \in Detections :
        (/\ Observe(d)
         /\ hits[d.id] = 0
         /\ d.id \in seen
         /\ d.id \in DOMAIN last_side
         /\ SideOfDet(d) # 0
         /\ last_side[d.id] # 0
         /\ (SideOfDet(d) > 0) # (last_side[d.id] > 0))
        => /\ C3_Expected(d) \in DOMAIN counts'
           /\ counts'[C3_Expected(d)] = CountOf(counts, C3_Expected(d)) + 1
           /\ \A c \in (DOMAIN counts' \cup DOMAIN counts) \ {C3_Expected(d)} :
                c \in DOMAIN counts' /\ counts'[c] = CountOf(counts, c)
           /\ d.id \in counted_ids'
           /\ hits'[d.id] = 1]_vars

\* a pedestrian crossing was counted
C3_Witness ==
    /\ pc = "clip"
    /\ counts["Pedestrian"] = 1
    /\ \E id \in counted_ids : hits[id] = 1

VehicleColumns == {"2W", "3W", "Car", "LCV", "Bus", "Truck", "Others"}

C4_VehicleSum(row) ==
    row["2W"] + row["3W"] + row["Car"] + row["LCV"] + row["Bus"] + row["Truck"]
        + row["Others"]

\* C4: in every interval row and in the Daily Total row, Total is the sum of
\* the vehicle category columns (Others included) and leaves Pedestrian out.
C4_TotalIsVehicleSum ==
    /\ \A k \in 1..Len(records) : records[k]["Total"] = C4_VehicleSum(records[k])
    /\ \A k \in 1..Len(df) : df[k]["Total"] = C4_VehicleSum(df[k])

\* a returned table whose Daily Total row has vehicles and pedestrians
C4_Witness ==
    /\ df # <<>>
    /\ df[Len(df)]["Total"] >= 1
    /\ df[Len(df)]["Pedestrian"] >= 1

C5_ColumnSum(table, col) == SumSeq([k \in 1..(Len(table) - 1) |-> table[k][col]])

\* C5: the returned and the exported table end with exactly one row labelled
\* Daily Total, after all interval rows, and each numeric column of that row
\* is the sum of the column over the interval rows.
C5_DailyTotalIsColumnSum ==
    \A t \in {df} \cup Range(exported) :
        t # <<>> =>
            /\ t[Len(t)]["Interval"] = DailyTotalLabel
            /\ \A k \in 1..(Len(t) - 1) : t[k]["Interval"] # DailyTotalLabel
            /\ Len(t) = Len(visited) + 1
            /\ \A k \in 1..(Len(t) - 1) : t[k]["Interval"] = IntervalLabel(k - 1, interval_minutes)
            /\ \A col \in VehicleColumns \cup {"Total", "Pedestrian"} :
                    t[Len(t)][col] = C5_ColumnSum(t, col)

\* a table of two interval rows, each with a count
C5_Witness ==
    /\ Len(df) = 3
    /\ df[1]["Total"] + df[1]["Pedestrian"] >= 1
    /\ df[2]["Total"] + df[2]["Pedestrian"] >= 1
    /\ exported = <<df>>

\* C6: the clips are visited in chronological segment order, none skipped
\* or repeated: the k-th interval row (0-based) holds the counts of segment
\* k under the label of minutes [k*d, (k+1)*d), and the finished table has
\* one interval row per segment.
C6_RowsInSegmentOrder ==
    /\ \A k \in 1..Len(visited) : visited[k] = k - 1
    /\ \A k \in 1..Len(records) :
        /\ records[k]["Interval"] = IntervalLabel(k - 1, interval_minutes)
        /\ records[k]["Car"] = (k - 1) % 2
    /\ df # <<>> => Len(df) = video + 1

\* C7: a Daily Total row is computed and written only when every clip of
\* the list has been counted; an invocation that raised has computed and
\* written none.
C7_TotalOnlyWhenComplete ==
    /\ (df # <<>> \/ exported # <<>>) =>
        /\ status = "done"
        /\ visited = clips
        /\ Len(df) = Len(clips) + 1
        /\ exported = <<df>>
    /\ status = "failed" => df = <<>> /\ exported = <<>>

\* an invocation raised after it had counted a clip, and wrote nothing
C7_Witness ==
    /\ status = "failed"
    /\ failedAt >= 1
    /\ visited # <<>>
    /\ exported = <<>>

\* C8: when an invocation raises at clip k, the interval records of clips
\* 0..k-1 are still held or have been written.
C8_RecordsSurviveFailure ==
    (status = "failed" /\ failedAt >= 1) =>
        \/ Len(records) = failedAt
        \/ exported # <<>>

\* C9: over an interrupted invocation and the invocations that resume it,
\* every clip index is counted at most once.
C9_NoReprocessingOnResume == \A c \in DOMAIN processed : processed[c] <= 1

\* C10: track state never crosses a clip boundary: a clip starts with empty
\* side table, empty counted set and zero counters, every identifier with a
\* stored side or a counted flag has been observed in the current clip, and
\* nothing is counted before a clip's second detection.
C10_TrackStateIsPerClip ==
    pc = "clip" =>
        /\ pos = 0 =>
            /\ last_side = EmptyDict
            /\ counted_ids = {}
        /\ pos <= 1 =>
            /\ counted_ids = {}
            /\ \A c \in DOMAIN counts : counts[c] = 0
        /\ DOMAIN last_side = seen
        /\ counted_ids \subseteq seen
        /\ \A id \in ObjIds : hits[id] = (IF id \in counted_ids THEN 1 ELSE 0)

\* an identifier counted in an earlier clip is counted again in a later one
C10_Witness ==
    /\ pc = "clip"
    /\ i >= 1
    /\ countedBefore \cap counted_ids # {}

\* the label C11 gives to the clip at 0-based position k
C11_Label(k) ==
    hhmm(base_dt(base_start_hhmm) + k * interval_minutes) \o <<"-">>
        \o hhmm(base_dt(base_start_hhmm) + (k + 1) * interval_minutes)

\* C11: the supplied base start is added before rendering: the interval
\* label of the clip at position k covers minutes [base + k*d,
\* base + (k+1)*d), and is relative to minute 0 only for the base 00:00.
C11_LabelsAddBaseStart ==
    /\ \A k \in 1..Len(records) : records[k]["Interval"] = C11_Label(k - 1)
    /\ \A k \in 1..(Len(df) - 1) : df[k]["Interval"] = C11_Label(k - 1)

\* C12: with a malformed --line string no detection is ever processed, no
\* clip is counted, no table and no peak summary is computed or written,
\* the invocation ends with the configuration error (unless interrupted
\* first), and the failed invocation leaves no artefact in the output
\* directory.
C12_MalformedLineFailsFast ==
    parse_normalized_line(line_norm, Frame.w, Frame.h) = <<>> =>
        /\ pc # "clip"
        /\ pos = 0
        /\ visited = <<>>
        /\ status # "done"
        /\ df = <<>> /\ exported = <<>> /\ peaks = <<>>
        /\ status = "failed" =>
            /\ error \in {"ValueError", "KeyboardInterrupt"}
            /\ clip_files = {}

\* the resolution order of C13, with labels and keys compared without
\* regard to case
C13_Resolve(label, names_map, config) ==
    LET l == Lower(label)
        ov == config.class_map_overrides
        hit == IF ov = <<>> THEN {} ELSE {k \in DOMAIN ov[1] : Lower(k) = l}
    IN  IF hit # {} THEN ov[1][CHOOSE k \in hit : TRUE]
        ELSE IF l \in DOMAIN names_map THEN names_map[l]
        ELSE IF l \in DOMAIN DEFAULT_CLASS_TO_CATEGORY THEN DEFAULT_CLASS_TO_CATEGORY[l]
        ELSE IF l \in {"person", "pedestrian"} THEN config.pedestrian_label
        ELSE IF config.include_others THEN "Others" ELSE "Unknown"

\* C13: every class label of the model is resolved, without regard to
\* case, to the override's category when the override map contains the
\* label, else by the model-specific map, else by the built-in table, else
\* to Pedestrian for person/pedestrian, else to Others (Unknown when
\* Others is disabled); the lookup built for a clip holds that category
\* for every label.
C13_ClassifierPrecedence ==
    pc = "clip" =>
        \A n \in Range(ModelNames) :
            /\ Lower(n) \in DOMAIN names_lookup
            /\ names_lookup[Lower(n)] = C13_Resolve(n, EmptyDict, cfg)
            /\ category_for_class(n, names_lookup, cfg)[1] = C13_Resolve(n, names_lookup, cfg)

\* the hours of a series that lie in a window
C14_Window(series, w) == {h \in DOMAIN series : w[1] <= h /\ h < w[2]}

C14_IsPeak(series, w, p) ==
    IF C14_Window(series, w) = {}
    THEN p.interval = NotAvailable /\ p.total = 0
    ELSE \E h \in C14_Window(series, w) :
            /\ p.interval = HourLabel(h)
            /\ p.total = series[h]
            /\ \A g \in C14_Window(series, w) :
                    /\ series[g] <= series[h]
                    /\ series[g] = series[h] => h <= g

\* C14: the peak of a window [start, end) is the hour bin of the window
\* with the largest Hourly Total, with that total; of several bins with the
\* largest total it is the one with the lowest hour; for a window without
\* bins it is the result (N/A, 0).
C14_PeakIsFirstMaximum ==
    peaks # <<>> =>
        /\ C14_IsPeak(hourly, morning_range, peaks.morning)
        /\ C14_IsPeak(hourly, evening_range, peaks.evening)
        /\ peaks.morning.label = "Morning"
        /\ peaks.evening.label = "Evening"

\* two hours of the morning window tie for the largest total and the
\* evening window holds no bin
C14_Witness ==
    /\ peaks # <<>>
    /\ morning_range = <<6, 12>>
    /\ {6, 7, 8} \subseteq DOMAIN hourly
    /\ hourly[6] < hourly[7]
    /\ hourly[7] = hourly[8]
    /\ peaks.morning.interval = HourLabel(7)
    /\ C14_Window(hourly, evening_range) = {}
    /\ peaks.evening.interval = NotAvailable

\* minutes covered by the interval rows of a table, read from the two
\* times of its first label
C15_Minutes(table) ==
    StartMin(SubSeq(table[1]["Interval"], 7, 11)) - StartMin(table[1]["Interval"])

\* the interval rows of a table whose start lies in hour h
C15_RowsOfHour(table, h) ==
    SelectSeq(table, LAMBDA r : /\ r["Interval"] # DailyTotalLabel
                                /\ StartMin(r["Interval"]) \div 60 = h)

\* the Totals of the interval rows of hour h
C15_Totals(table, h) ==
    [k \in 1..Len(C15_RowsOfHour(table, h)) |-> C15_RowsOfHour(table, h)[k]["Total"]]

\* the peak table main built for day k has been computed
C15_Handled(k) == k \in 1..Len(peak_tables) /\ k <= Len(daily)

\* C15: in the peak table of a day (with a Total column), the PHF of every
\* hour bin is the bin's highest single-record Total times 60 / interval
\* minutes, divided by the Hourly Total, rounded to three decimals, for
\* 15-minute and for 30-minute rows; it is 0.0 when the Hourly Total is 0.
C15_PhfUsesIntervalLength ==
    \A k \in 1..Len(peak_tables) :
        (C15_Handled(k) /\ "Total" \in Columns(daily[k])) =>
            \A n \in 1..Len(peak_tables[k]) :
                \E h \in 0..23 :
                    /\ peak_tables[k][n]["Hour"] = HourLabel(h)
                    /\ C15_RowsOfHour(daily[k], h) # <<>>
                    /\ LET tot == SumSeq(C15_Totals(daily[k], h))
                           top == MaxSeq(C15_Totals(daily[k], h))
                           per_hour == 60 \div C15_Minutes(daily[k])
                       IN  peak_tables[k][n]["PHF"] =
                              IF tot = 0 THEN 0
                              ELSE RoundHalfEven(top * per_hour * 1000, tot)

\* C16: in the peak table of every day the PHF of every hour bin lies
\* between 0 and 60 / interval minutes, and it is 0.0 exactly when the
\* bin's Hourly Total is 0 (PHF is held in thousandths).
C16_PhfInRange ==
    \A k \in 1..Len(peak_tables) :
        C15_Handled(k) =>
            \A n \in 1..Len(peak_tables[k]) :
                /\ peak_tables[k][n]["PHF"] >= 0
                /\ peak_tables[k][n]["PHF"] <= (60 \div C15_Minutes(daily[k])) * 1000
                /\ peak_tables[k][n]["PHF"] = 0 <=> peak_tables[k][n]["Hourly Total"] = 0

\* compute_adt has returned
C17_AdtComputed == pc \in {"pcu", "peak", "end"} /\ daily # <<>>

\* the days that have records
C17_Days == SelectSeq(daily, LAMBDA t : t # <<>>)

\* the Daily Total of a category on a day: the day's Daily Total row, or
\* the sum of its interval rows when it has no such row
C17_DayTotal(table, c) ==
    LET tot == SelectSeq(table, LAMBDA r : r["Interval"] = DailyTotalLabel)
    IN  IF tot # <<>> THEN tot[1][c] ELSE SumSeq([k \in 1..Len(table) |-> table[k][c]])

C17_SumOverDays(c) ==
    SumSeq([j \in 1..Len(C17_Days) |-> C17_DayTotal(C17_Days[j], c)])

C18_PcuFromRoundedAdt ==
    (pc \in {"peak", "end"} /\ pcu_adt # <<>>) =>
        /\ Len(pcu_adt) = Len(adt_counts)
        /\ \A k \in 1..Len(pcu_adt) :
            LET c == pcu_adt[k]["Vehicle Category"]
                a == pcu_adt[k]["Avg Daily Count"]
                u == pcu_adt[k]["Avg Daily PCU"]
            IN  /\ c = adt_counts[k]["Vehicle Category"]
                /\ a = adt_counts[k]["Avg Daily Count"]
                /\ c \in DOMAIN pcu_map =>
                        /\ 2 * (u * pcu_map[c][2] - a * pcu_map[c][1]) <= pcu_map[c][2]
                        /\ 2 * (a * pcu_map[c][1] - u * pcu_map[c][2]) <= pcu_map[c][2]
                /\ c \notin DOMAIN pcu_map => u = a

\* a summary with vehicles under Total, which has no factor, with buses
\* (factor 3.0) and with pedestrians (factor 0.3)
C18_Witness ==
    /\ saved # <<>>
    /\ "Total" \notin DOMAIN pcu_map
    /\ \E k \in 1..Len(pcu_adt) :
        /\ pcu_adt[k]["Vehicle Category"] = "Total"
        /\ pcu_adt[k]["Avg Daily PCU"] >= 1
    /\ \E k \in 1..Len(pcu_adt) :
        /\ pcu_adt[k]["Vehicle Category"] = "Bus"
        /\ pcu_adt[k]["Avg Daily PCU"] = 3
    /\ \E k \in 1..Len(pcu_adt) :
        /\ pcu_adt[k]["Vehicle Category"] = "Pedestrian"
        /\ pcu_adt[k]["Avg Daily Count"] = 1
        /\ pcu_adt[k]["Avg Daily PCU"] = 0

\* a day's table has interval rows and no Daily Total row
C19_LacksTotalRow(table) ==
    table # <<>> /\ \A k \in 1..Len(table) : table[k]["Interval"] # DailyTotalLabel

\* the table with a Daily Total row that carries the column sums
C19_WithTotalRow(table) ==
    Append(table,
        [col \in Columns(table) |->
            IF col = "Interval" THEN DailyTotalLabel
            ELSE IF col = "_source_file" THEN table[1][col]
            ELSE SumSeq([k \in 1..Len(table) |-> table[k][col]])])

C20_MissingTotalIsSummed ==
    \A k \in 1..Len(peak_tables) :
        (C15_Handled(k) /\ "Total" \notin Columns(daily[k])) =>
            \A n \in 1..Len(peak_tables[k]) :
                \E h \in 0..23 :
                    /\ peak_tables[k][n]["Hour"] = HourLabel(h)
                    /\ LET rows == C15_RowsOfHour(daily[k], h)
                           sums == [j \in 1..Len(rows) |-> C4_VehicleSum(rows[j])]
                       IN  /\ rows # <<>>
                           /\ peak_tables[k][n]["Hourly Total"] = SumSeq(sums)
                           /\ peak_tables[k][n]["Highest 15-min Volume"] = MaxSeq(sums)

\* the columns of the interval table, in the order the spec fixes
C21_Order ==
    <<"Interval", "2W", "3W", "Car", "LCV", "Bus", "Truck", "Others", "Total",
      "Pedestrian">>

\* the count a mapping holds for a category, 0 when it holds none
C21_Count(cnts, c) == IF c \in DOMAIN cnts THEN cnts[c] ELSE 0

\* C21: the row built from a clip's counts mapping has the columns Interval,
\* 2W, 3W, Car, LCV, Bus, Truck, Others, Total, Pedestrian in that order,
\* holds the mapping's count for each category and 0 for a category without
\* a crossing; a mapping without any crossing gives a row whose counts,
\* Total and Pedestrian are all 0.
C21_RowListsCounts ==
    \A k \in 1..Len(records) :
        /\ ExportCols(cfg) = C21_Order
        /\ DOMAIN records[k] = Range(C21_Order)
        /\ \A c \in VehicleColumns \cup {"Pedestrian"} :
                records[k][c] = C21_Count(counts, c)
        /\ (\A c \in VehicleColumns \cup {"Pedestrian"} : C21_Count(counts, c) = 0)
                => records[k]["Total"] = 0

\* the spec's scenario scaled to the bound: counts for 2W, Car, Bus and
\* Pedestrian only
C21_Witness ==
    /\ pc = "idle"
    /\ Len(records) = 1
    /\ counts["2W"] = 2 /\ counts["Car"] = 2 /\ counts["Bus"] = 1
    /\ counts["Pedestrian"] = 2 /\ counts["Others"] = 0
    /\ records[1]["2W"] = 2 /\ records[1]["3W"] = 0 /\ records[1]["Car"] = 2
    /\ records[1]["Total"] = 5 /\ records[1]["Pedestrian"] = 2

\* the interval rows of a finished table
C22_IntervalRows(table) == SelectSeq(table, LAMBDA r : r["Interval"] # DailyTotalLabel)

\* Total summed over the rows whose parsed start minute lies in hour h
C22_HourTotal(rows, h) ==
    SumSeq([k \in 1..Len(rows) |->
                IF StartMin(rows[k]["Interval"]) \div 60 = h
                THEN rows[k]["Total"] ELSE 0])

\* C22: the hour bins of a finished table leave out the Daily Total row; the
\* start minute parsed from the label of the k-th interval row (k from 0) is
\* k*d; a row belongs to hour start_minute // 60, there is a bin for exactly
\* the hours that have rows, and its Hourly Total is the sum of Total over
\* exactly those rows.
C22_HourBinsFromLabels ==
    (status = "done" /\ df # <<>>) =>
        LET rows == C22_IntervalRows(df)
        IN  /\ Len(rows) = Len(df) - 1
            /\ \A k \in 1..Len(rows) :
                    StartMin(rows[k]["Interval"]) = (k - 1) * interval_minutes
            /\ DOMAIN hourly =
                    {((k - 1) * interval_minutes) \div 60 : k \in 1..Len(rows)}
            /\ \A h \in DOMAIN hourly : hourly[h] = C22_HourTotal(rows, h)

\* C23: every hour bin of a finished table has an hour index in 0..23.
C23_HourIndexWithinDay ==
    status = "done" => \A h \in DOMAIN hourly : h \in 0..23

\* the rearrangements of a list of n days
C24_Perms(n) == {p \in [1..n -> 1..n] : \A a, b \in 1..n : p[a] = p[b] => a = b}

\* C24: the ADT table computed from a list of daily tables is the table
\* computed from every rearrangement of the list: the same categories with
\* the same values.
C24_AdtOrderIndependent ==
    C17_AdtComputed =>
        \A p \in C24_Perms(Len(daily)) :
            compute_adt([k \in 1..Len(daily) |-> daily[p[k]]]) = adt_counts

\* C25: when a clip's row has been appended, its Total plus its Pedestrian
\* value is the number of identifiers counted in the clip, whatever the
\* class labels and the override mapping.
C25_RowHoldsEveryCrossing ==
    (pc = "loop" /\ records # <<>>) =>
        records[Len(records)]["Total"] + records[Len(records)]["Pedestrian"]
            = Cardinality(counted_ids)

\* C26: the clips an invocation processes are exactly the segments of its
\* own input video, in any sequence of invocations on one output directory,
\* and the table it returns has one interval row per segment of that video.
C26_OnlyOwnSegments ==
    /\ status \in {"running", "done"} => Range(clips) = 0..(video - 1)
    /\ status = "done" => Len(df) = video + 1

\* Hourly Total summed over the bins of hours in S
RECURSIVE C27_SumOfBins(_)
C27_SumOfBins(S) ==
    IF S = {} THEN 0
    ELSE LET h == CHOOSE x \in S : TRUE IN hourly[h] + C27_SumOfBins(S \ {h})

\* C27: for every table an invocation returns, the Hourly Totals of all hour
\* bins add up to the Total of the Daily Total row, and the totals reported
\* for the Morning and for the Evening peak are each at most that Total.
C27_HourlyTotalsAddUp ==
    status = "done" =>
        LET daily_total == df[Len(df)]["Total"]
        IN  /\ df[Len(df)]["Interval"] = DailyTotalLabel
            /\ C27_SumOfBins(DOMAIN hourly) = daily_total
            /\ peaks.morning.total <= daily_total
            /\ peaks.evening.total <= daily_total

\* the table of the long video: more than a day of hour bins, with vehicles
\* in the peak hour of both windows
C27_Witness ==
    /\ status = "done"
    /\ video > MaxClips
    /\ Cardinality(DOMAIN hourly) > 24
    /\ peaks.morning.total >= 1
    /\ peaks.evening.total >= 1
    /\ df[Len(df)]["Total"] > peaks.morning.total + peaks.evening.total

====
